---- MODULE Spec2Model ----
(***************************************************************************)
(* Critical-path computation of odinuv/cpm, both variants:                 *)
(*   variant 1 = src/critical_path_script.py   (module-level functions,    *)
(*               unit durations, placeholder nodes),                       *)
(*   variant 2 = src/critical_path_script_2.py (CriticalPathCalculator,    *)
(*               priority/status weighted durations).                      *)
(* Times of variant 1 are in task units (every task takes 1).  Times of    *)
(* variant 2 are in TENTHS of a unit, so that the 0.1 floor and the 0.5    *)
(* and 1.5 status weights are integers; the 0.001 tolerance of the         *)
(* classification is 1/100 of a tenth.  Python's float rounding (at most   *)
(* a few 1e-16 on the sums that occur) is far below that tolerance and is  *)
(* not modelled.                                                           *)
(* A Python dict is a function whose DOMAIN is its key set; a list is a    *)
(* sequence; the iteration order of a Python set of strings depends on the *)
(* per-process hash seed and is a nondeterministic choice of a permutation.*)
(***************************************************************************)
EXTENDS Integers, Sequences, FiniteSets, TLC

\* ---------------------------------------------------------------- bounds
\* Spec: ids of the nodes and of the edge endpoints, length of the edge list
NumIds == 3
MaxEdges == 2
\* SpecWide: the same, one larger
WideIds == 4
WideEdges == 3
\* SpecDuration: nodes that range over the whole priority and status tables
MaxAttrNodes == 1
MaxAttrEdges == 1

AllIds == <<"A", "B", "C", "D", "E", "F", "G", "H">>
\* The node collection of a run: the first k ids, in loading order.  Ids are
\* interchangeable and the edge lists range over all ids, so this loses no
\* input up to renaming; the ids beyond k are the dangling references.
FirstIds(k) == {AllIds[i] : i \in 1..k}
\* every id a run can meet
Ids == FirstIds(IF NumIds > WideIds THEN NumIds ELSE WideIds)

\* A node and an edge are Python dicts: records whose fields may be missing.
\* "Unknown" stands for every string the weight tables do not list.
Priorities == {"Highest", "High", "Medium", "Low", "Lowest", "Unknown"}
Statuses == {"Done", "In Progress", "To Do", "On hold", "Unknown"}
NoFields == [x \in {} |-> x]
NodeRecords(P, S) ==
    {pr @@ st : pr \in {NoFields} \cup {("priority" :> p) : p \in P},
                st \in {NoFields} \cup {("status" :> t) : t \in S}}

\* ---------------------------------------------------------------- helpers
Range(s) == {s[i] : i \in 1..Len(s)}
Abs(x) == IF x < 0 THEN -x ELSE x
Max2(a, b) == IF a > b THEN a ELSE b
MaxOf(S) == CHOOSE x \in S : \A y \in S : y <= x
MinOf(S) == CHOOSE x \in S : \A y \in S : x <= y
Get(f, k, d) == IF k \in DOMAIN f THEN f[k] ELSE d
Put(f, k, v) == (k :> v) @@ f
Reverse(s) == [i \in 1..Len(s) |-> s[Len(s) + 1 - i]]
Perms(S) == {p \in [1..Cardinality(S) -> S] : \A i, j \in 1..Cardinality(S) : p[i] = p[j] => i = j}
\* the elements of S in the order of the sequence s (s has no repetitions)
RECURSIVE InOrder(_, _)
InOrder(s, S) ==
    IF s = <<>> THEN <<>>
    ELSE IF Head(s) \in S THEN <<Head(s)>> \o InOrder(Tail(s), S)
         ELSE InOrder(Tail(s), S)
SeqsUpTo(S, n) == UNION {[1..m -> S] : m \in 0..n}

VARIABLES
    variant,            \* 1 or 2: which script runs
    phase,              \* position of the run in main()
    run,                \* 1 = first run, 2 = run on the output of the first
    nodes,              \* the node collection: id -> record
    dependencies,       \* the edge collection: list of records
    in_ids,             \* the ids of the node collection as loaded
    graph,              \* id -> list of successors
    reverse_graph,      \* id -> list of predecessors
    in_degree,          \* variant 1: build_graph's in_degree
    out_degree,         \* variant 1: build_graph's out_degree
    all_nodes,          \* variant 1: build_graph's all_nodes
    topo_order,
    cycle_warning,      \* "Warning: Cycle detected in dependency graph!" was printed
    earliest_start,
    earliest_finish,    \* variant 2 only
    latest_start,
    latest_finish,      \* variant 2 only
    project_completion, \* variant 2: project_completion; variant 1: max_time
    critical_nodes,
    first               \* the annotations of the first run, kept for the second

vars == <<variant, phase, run, nodes, dependencies, in_ids, graph, reverse_graph,
          in_degree, out_degree, all_nodes, topo_order, cycle_warning,
          earliest_start, earliest_finish, latest_start, latest_finish,
          project_completion, critical_nodes, first>>

\* ------------------------------------------------- variant 1: build_graph
RECURSIVE Targets(_, _)
Targets(deps, n) ==
    IF deps = <<>> THEN <<>>
    ELSE IF Head(deps).source = n THEN <<Head(deps).target>> \o Targets(Tail(deps), n)
         ELSE Targets(Tail(deps), n)
RECURSIVE Sources(_, _)
Sources(deps, n) ==
    IF deps = <<>> THEN <<>>
    ELSE IF Head(deps).target = n THEN <<Head(deps).source>> \o Sources(Tail(deps), n)
         ELSE Sources(Tail(deps), n)
Endpoints(deps) == {deps[i].source : i \in 1..Len(deps)} \cup {deps[i].target : i \in 1..Len(deps)}

\* graph and reverse_graph are defaultdict(list): a key never written reads as [].
build_graph_1(deps) ==
    [graph |-> [n \in Ids |-> Targets(deps, n)],
     reverse_graph |-> [n \in Ids |-> Sources(deps, n)],
     in_degree |-> [n \in Endpoints(deps) |-> Len(Sources(deps, n))],
     out_degree |-> [n \in Endpoints(deps) |-> Len(Targets(deps, n))],
     all_nodes |-> Endpoints(deps)]

\* ------------------------------------------------- variant 2: build_graph
\* Only the edges whose two endpoints are nodes are kept.
KeptDeps(nds, deps) == SelectSeq(deps, LAMBDA d : d.source \in DOMAIN nds /\ d.target \in DOMAIN nds)
build_graph_2(nds, deps) ==
    [graph |-> [n \in Ids |-> Targets(KeptDeps(nds, deps), n)],
     reverse_graph |-> [n \in Ids |-> Sources(KeptDeps(nds, deps), n)]]

\* ------------------------------------------------------- topological sort
\* (mutant: the zero test is off by one)
RECURSIVE Relax_OffByOne(_, _, _)
Relax_OffByOne(nbrs, queue, deg) ==
    IF nbrs = <<>> THEN [queue |-> queue, deg |-> deg]
    ELSE LET t == Head(nbrs)
             d == deg[t] - 1
         IN  Relax_OffByOne(Tail(nbrs), IF d = 1 THEN Append(queue, t) ELSE queue,
                            [deg EXCEPT ![t] = d])
\* The for-loop over graph[node]: decrement, enqueue on reaching exactly 0.
RECURSIVE Relax(_, _, _)
Relax(nbrs, queue, deg) ==
    IF nbrs = <<>> THEN [queue |-> queue, deg |-> deg]
    ELSE LET t == Head(nbrs)
             d == deg[t] - 1
         IN  Relax(Tail(nbrs), IF d = 0 THEN Append(queue, t) ELSE queue, [deg EXCEPT ![t] = d])
\* The while-loop: popleft, append to the order, relax the successors.
RECURSIVE Kahn(_, _, _, _)
Kahn(g, queue, order, deg) ==
    IF queue = <<>> THEN order
    ELSE LET r == Relax(g[Head(queue)], Tail(queue), deg)
         IN  Kahn(g, r.queue, Append(order, Head(queue)), r.deg)

\* Variant 1: the queue is seeded from in_degree.items().  All keys of degree 0
\* were inserted by the loop over the set all_nodes, so their order is the
\* set's iteration order: the seed is one of the permutations `seed`.
Seeds1(deg) == Perms({n \in DOMAIN deg : deg[n] = 0})
topological_sort_1(g, deg, seed) == Kahn(g, seed, <<>>, deg)

\* Variant 2: in-degrees over self.nodes, queue seeded in the dict's order.
Count(s, x) == Cardinality({i \in 1..Len(s) : s[i] = x})
RECURSIVE InDegreeOf(_, _, _)
InDegreeOf(keys, g, n) ==
    IF keys = <<>> THEN 0 ELSE Count(g[Head(keys)], n) + InDegreeOf(Tail(keys), g, n)
InDegree2(nds, g) == [n \in DOMAIN nds |-> InDegreeOf(InOrder(AllIds, Ids), g, n)]
NodeSeq(nds) == InOrder(AllIds, DOMAIN nds)
KahnOrder2(nds, g) ==
    LET deg == InDegree2(nds, g)
    IN  Kahn(g, SelectSeq(NodeSeq(nds), LAMBDA n : deg[n] = 0), <<>>, deg)
\* The nodes Kahn's loop left out are appended from a set: any permutation.
Missing2(nds, g) == DOMAIN nds \ Range(KahnOrder2(nds, g))
topological_sort_2(nds, g, rest) == KahnOrder2(nds, g) \o rest


\* ------------------------------------------------ variant 2: durations
get_priority_weight(priority) ==
    CASE priority = "Highest" -> 5
      [] priority = "High" -> 4
      [] priority = "Medium" -> 3
      [] priority = "Low" -> 2
      [] priority = "Lowest" -> 1
      [] OTHER -> 1
\* in tenths: Done 0, In Progress 0.5, To Do 1.0, On hold 1.5, otherwise 1.0
get_status_weight(status) ==
    CASE status = "Done" -> 0
      [] status = "In Progress" -> 5
      [] status = "To Do" -> 10
      [] status = "On hold" -> 15
      [] OTHER -> 10
\* (mutant: the 0.1 floor is missing)
calculate_node_duration_NoFloor(node) ==
    get_priority_weight(Get(node, "priority", "Low"))
        * get_status_weight(Get(node, "status", "To Do"))
\* in tenths: max(priority_weight * status_weight, 0.1)
calculate_node_duration(node) ==
    Max2(get_priority_weight(Get(node, "priority", "Low"))
            * get_status_weight(Get(node, "status", "To Do")), 1)

\* ------------------------------------------- variant 1: forward, backward
\* for dependent in graph[node]: push earliest_start[node] + 1
RECURSIVE Push1(_, _, _)
Push1(dependents, node, es) ==
    IF dependents = <<>> THEN es
    ELSE LET d == Head(dependents)
             new_start == es[node] + 1
         IN  Push1(Tail(dependents), node,
                   IF d \notin DOMAIN es \/ new_start > es[d] THEN Put(es, d, new_start) ELSE es)
RECURSIVE Forward1(_, _, _)
Forward1(order, g, es) ==
    IF order = <<>> THEN es
    ELSE LET node == Head(order)
             es0 == IF node \in DOMAIN es THEN es ELSE Put(es, node, 0)
         IN  Forward1(Tail(order), g, Push1(g[node], node, es0))
forward_pass_1(order, g, deg) ==
    Forward1(order, g, [n \in {m \in DOMAIN deg : deg[m] = 0} |-> 0])

\* min over the dependents that already have a latest start, of latest - 1;
\* the node's own earliest start when there is none
LatestOf1(node, g, es, ls) ==
    LET cand == {ls[d] - 1 : d \in Range(g[node]) \cap DOMAIN ls}
    IN  IF cand # {} THEN MinOf(cand) ELSE Get(es, node, 0)
RECURSIVE Backward1(_, _, _, _, _)
Backward1(rorder, g, odeg, es, ls) ==
    IF rorder = <<>> THEN ls
    ELSE LET node == Head(rorder)
             ls1 == IF node \in DOMAIN ls THEN ls
                    ELSE IF odeg[node] = 0 THEN Put(ls, node, Get(es, node, 0))
                    ELSE Put(ls, node, LatestOf1(node, g, es, ls))
         IN  Backward1(Tail(rorder), g, odeg, es, ls1)
\* End nodes start from their own earliest start.
backward_pass_1(order, g, odeg, es) ==
    Backward1(Reverse(order), g, odeg, es,
              [n \in {m \in DOMAIN odeg : odeg[m] = 0} |-> Get(es, n, 0)])
max_time_1(es) == IF DOMAIN es = {} THEN 0 ELSE MaxOf({es[n] : n \in DOMAIN es})
critical_nodes_1(all, es, ls) == {n \in all : Get(es, n, 0) = Get(ls, n, 0)}

\* ------------------------------------------- variant 2: forward, backward
MaxPredFinish(node, rg, ef) == MaxOf({0} \cup {ef[p] : p \in Range(rg[node]) \cap DOMAIN ef})
RECURSIVE Forward2(_, _, _, _, _)
Forward2(order, rg, nds, es, ef) ==
    IF order = <<>> THEN [es |-> es, ef |-> ef]
    ELSE LET node == Head(order)
             start == MaxPredFinish(node, rg, ef)
         IN  Forward2(Tail(order), rg, nds, Put(es, node, start),
                      Put(ef, node, start + calculate_node_duration(nds[node])))
forward_pass_2(order, rg, nds) == Forward2(order, rg, nds, NoFields, NoFields)
\* (mutant: min instead of max)
project_completion_2_Min(ef) == IF DOMAIN ef = {} THEN 0 ELSE MinOf({ef[n] : n \in DOMAIN ef})
project_completion_2(ef) == IF DOMAIN ef = {} THEN 0 ELSE MaxOf({ef[n] : n \in DOMAIN ef})

MinSuccStart(node, g, ls, completion) ==
    MinOf({completion} \cup {ls[s] : s \in Range(g[node]) \cap DOMAIN ls})
RECURSIVE Backward2(_, _, _, _, _, _)
Backward2(rorder, g, nds, completion, ls, lf) ==
    IF rorder = <<>> THEN [ls |-> ls, lf |-> lf]
    ELSE LET node == Head(rorder)
             lf1 == IF node \in DOMAIN lf THEN lf
                    ELSE Put(lf, node, MinSuccStart(node, g, ls, completion))
         IN  Backward2(Tail(rorder), g, nds, completion,
                       Put(ls, node, lf1[node] - calculate_node_duration(nds[node])), lf1)
\* End nodes (no successors) are given the project completion first.
backward_pass_2(order, g, nds, completion) ==
    Backward2(Reverse(order), g, nds, completion, NoFields,
              [n \in {m \in DOMAIN nds : g[m] = <<>>} |-> completion])
slack_2(n, es, ls) == Get(ls, n, 0) - Get(es, n, 0)
\* abs(slack) < 0.001, slack in tenths
critical_nodes_2(nds, es, ls) == {n \in DOMAIN nds : Abs(slack_2(n, es, ls)) * 100 < 1}

\* ---------------------------------------------------------- annotation
Placeholder == [status |-> "Unknown", priority |-> "medium", onCriticalPath |-> FALSE]
create_missing_nodes(nds, deps) ==
    [n \in Endpoints(deps) \ DOMAIN nds |-> Placeholder] @@ nds
MarkNodes(nds, crit) == [n \in DOMAIN nds |-> Put(nds[n], "onCriticalPath", n \in crit)]
\* (mutant: one critical endpoint is enough)
PathType1_EitherEndpoint(d, crit) ==
    IF d.source \in crit \/ d.target \in crit THEN "critical" ELSE "parallel"
PathType1(d, crit) ==
    IF d.source \in crit /\ d.target \in crit THEN "critical" ELSE "parallel"
PathType2(d, crit, nds) ==
    IF d.source \in crit /\ d.target \in crit /\ d.source \in DOMAIN nds /\ d.target \in DOMAIN nds
    THEN "critical" ELSE "parallel"
MarkDeps1(deps, crit) == [i \in 1..Len(deps) |-> Put(deps[i], "pathType", PathType1(deps[i], crit))]
MarkDeps2(deps, crit, nds) == [i \in 1..Len(deps) |-> Put(deps[i], "pathType", PathType2(deps[i], crit, nds))]

\* ------------------------------------------------------------- the run
EdgeLists(k, n) == SeqsUpTo([source : FirstIds(k), target : FirstIds(k)], n)
\* Variant 1 reads nothing of a node but its id.
Records1 == {[priority |-> "Medium", status |-> "To Do"]}
\* Durations 1.0 and 0.1 (the floor).
Records2 == {[priority |-> "Lowest", status |-> "To Do"], [priority |-> "High", status |-> "Done"]}

Loaded(v, nds, deps) ==
    /\ variant = v
    /\ phase = "loaded"
    /\ run = 1
    /\ nodes = nds
    /\ dependencies = deps
    /\ in_ids = DOMAIN nds
    /\ graph = [n \in Ids |-> <<>>]
    /\ reverse_graph = [n \in Ids |-> <<>>]
    /\ in_degree = NoFields
    /\ out_degree = NoFields
    /\ all_nodes = {}
    /\ topo_order = <<>>
    /\ cycle_warning = FALSE
    /\ earliest_start = NoFields
    /\ earliest_finish = NoFields
    /\ latest_start = NoFields
    /\ latest_finish = NoFields
    /\ project_completion = 0
    /\ critical_nodes = {}
    /\ first = NoFields

Inputs(maxIds, maxEdges) ==
    \/ \E k \in 0..maxIds : \E nds \in [FirstIds(k) -> Records1] :
         \E deps \in EdgeLists(maxIds, maxEdges) : Loaded(1, nds, deps)
    \/ \E k \in 0..maxIds : \E nds \in [FirstIds(k) -> Records2] :
         \E deps \in EdgeLists(maxIds, maxEdges) : Loaded(2, nds, deps)
Init == Inputs(NumIds, MaxEdges)
InitWide == Inputs(WideIds, WideEdges)
\* nodes with every combination of a priority and a status, given or missing
InitAttrs ==
    \E v \in {1, 2} : \E k \in 0..MaxAttrNodes :
      \E nds \in [FirstIds(k) -> NodeRecords(Priorities, Statuses)] :
        \E deps \in EdgeLists(MaxAttrNodes, MaxAttrEdges) : Loaded(v, nds, deps)

\* main(), variant 1: no dependencies, every node is marked not critical
MainNoDependencies1 ==
    /\ variant = 1 /\ phase = "loaded" /\ dependencies = <<>>
    /\ nodes' = [n \in DOMAIN nodes |-> Put(nodes[n], "onCriticalPath", FALSE)]
    /\ phase' = "done"
    /\ UNCHANGED <<variant, run, dependencies, in_ids, graph, reverse_graph, in_degree,
                   out_degree, all_nodes, topo_order, cycle_warning, earliest_start,
                   earliest_finish, latest_start, latest_finish, project_completion,
                   critical_nodes, first>>

BuildGraph1 ==
    /\ variant = 1 /\ phase = "loaded" /\ dependencies # <<>>
    /\ LET b == build_graph_1(dependencies)
       IN  /\ graph' = b.graph
           /\ reverse_graph' = b.reverse_graph
           /\ in_degree' = b.in_degree
           /\ out_degree' = b.out_degree
           /\ all_nodes' = b.all_nodes
    /\ phase' = "built"
    /\ UNCHANGED <<variant, run, nodes, dependencies, in_ids, topo_order, cycle_warning,
                   earliest_start, earliest_finish, latest_start, latest_finish,
                   project_completion, critical_nodes, first>>

TopologicalSort1 ==
    /\ variant = 1 /\ phase = "built"
    /\ \E seed \in Seeds1(in_degree) : topo_order' = topological_sort_1(graph, in_degree, seed)
    /\ phase' = "sorted"
    /\ UNCHANGED <<variant, run, nodes, dependencies, in_ids, graph, reverse_graph, in_degree,
                   out_degree, all_nodes, cycle_warning, earliest_start, earliest_finish,
                   latest_start, latest_finish, project_completion, critical_nodes, first>>

ForwardPass1 ==
    /\ variant = 1 /\ phase = "sorted"
    /\ earliest_start' = forward_pass_1(topo_order, graph, in_degree)
    /\ phase' = "forward"
    /\ UNCHANGED <<variant, run, nodes, dependencies, in_ids, graph, reverse_graph, in_degree,
                   out_degree, all_nodes, topo_order, cycle_warning, earliest_finish,
                   latest_start, latest_finish, project_completion, critical_nodes, first>>

BackwardPass1 ==
    /\ variant = 1 /\ phase = "forward"
    /\ project_completion' = max_time_1(earliest_start)
    /\ latest_start' = backward_pass_1(topo_order, graph, out_degree, earliest_start)
    /\ phase' = "backward"
    /\ UNCHANGED <<variant, run, nodes, dependencies, in_ids, graph, reverse_graph, in_degree,
                   out_degree, all_nodes, topo_order, cycle_warning, earliest_start,
                   earliest_finish, latest_finish, critical_nodes, first>>

Classify1 ==
    /\ variant = 1 /\ phase = "backward"
    /\ critical_nodes' = critical_nodes_1(all_nodes, earliest_start, latest_start)
    /\ phase' = "classified"
    /\ UNCHANGED <<variant, run, nodes, dependencies, in_ids, graph, reverse_graph, in_degree,
                   out_degree, all_nodes, topo_order, cycle_warning, earliest_start,
                   earliest_finish, latest_start, latest_finish, project_completion, first>>

\* update_nodes_and_dependencies
UpdateNodes1 ==
    /\ variant = 1 /\ phase = "classified"
    /\ nodes' = MarkNodes(create_missing_nodes(nodes, dependencies), critical_nodes)
    /\ dependencies' = MarkDeps1(dependencies, critical_nodes)
    /\ phase' = "done"
    /\ UNCHANGED <<variant, run, in_ids, graph, reverse_graph, in_degree, out_degree,
                   all_nodes, topo_order, cycle_warning, earliest_start, earliest_finish,
                   latest_start, latest_finish, project_completion, critical_nodes, first>>

\* main(), variant 2: "Error: No nodes loaded", nothing is computed or saved
MainNoNodes2 ==
    /\ variant = 2 /\ phase = "loaded" /\ DOMAIN nodes = {}
    /\ phase' = "aborted"
    /\ UNCHANGED <<variant, run, nodes, dependencies, in_ids, graph, reverse_graph, in_degree,
                   out_degree, all_nodes, topo_order, cycle_warning, earliest_start,
                   earliest_finish, latest_start, latest_finish, project_completion,
                   critical_nodes, first>>

BuildGraph2 ==
    /\ variant = 2 /\ phase = "loaded" /\ DOMAIN nodes # {}
    /\ LET b == build_graph_2(nodes, dependencies)
       IN  /\ graph' = b.graph
           /\ reverse_graph' = b.reverse_graph
    /\ phase' = "built"
    /\ UNCHANGED <<variant, run, nodes, dependencies, in_ids, in_degree, out_degree, all_nodes,
                   topo_order, cycle_warning, earliest_start, earliest_finish, latest_start,
                   latest_finish, project_completion, critical_nodes, first>>

TopologicalSort2 ==
    /\ variant = 2 /\ phase = "built"
    /\ \E rest \in Perms(Missing2(nodes, graph)) :
         topo_order' = topological_sort_2(nodes, graph, rest)
    /\ cycle_warning' = (Len(KahnOrder2(nodes, graph)) # Cardinality(DOMAIN nodes))
    /\ phase' = "sorted"
    /\ UNCHANGED <<variant, run, nodes, dependencies, in_ids, graph, reverse_graph, in_degree,
                   out_degree, all_nodes, earliest_start, earliest_finish, latest_start,
                   latest_finish, project_completion, critical_nodes, first>>

ForwardPass2 ==
    /\ variant = 2 /\ phase = "sorted"
    /\ LET f == forward_pass_2(topo_order, reverse_graph, nodes)
       IN  /\ earliest_start' = f.es
           /\ earliest_finish' = f.ef
           /\ project_completion' = project_completion_2(f.ef)
    /\ phase' = "forward"
    /\ UNCHANGED <<variant, run, nodes, dependencies, in_ids, graph, reverse_graph, in_degree,
                   out_degree, all_nodes, topo_order, cycle_warning, latest_start,
                   latest_finish, critical_nodes, first>>

BackwardPass2 ==
    /\ variant = 2 /\ phase = "forward"
    /\ LET b == backward_pass_2(topo_order, graph, nodes, project_completion)
       IN  /\ latest_start' = b.ls
           /\ latest_finish' = b.lf
    /\ phase' = "backward"
    /\ UNCHANGED <<variant, run, nodes, dependencies, in_ids, graph, reverse_graph, in_degree,
                   out_degree, all_nodes, topo_order, cycle_warning, earliest_start,
                   earliest_finish, project_completion, critical_nodes, first>>

Classify2 ==
    /\ variant = 2 /\ phase = "backward"
    /\ critical_nodes' = critical_nodes_2(nodes, earliest_start, latest_start)
    /\ phase' = "classified"
    /\ UNCHANGED <<variant, run, nodes, dependencies, in_ids, graph, reverse_graph, in_degree,
                   out_degree, all_nodes, topo_order, cycle_warning, earliest_start,
                   earliest_finish, latest_start, latest_finish, project_completion, first>>

Annotate2 ==
    /\ variant = 2 /\ phase = "classified"
    /\ nodes' = MarkNodes(nodes, critical_nodes)
    /\ dependencies' = MarkDeps2(dependencies, critical_nodes, nodes)
    /\ phase' = "done"
    /\ UNCHANGED <<variant, run, in_ids, graph, reverse_graph, in_degree, out_degree,
                   all_nodes, topo_order, cycle_warning, earliest_start, earliest_finish,
                   latest_start, latest_finish, project_completion, critical_nodes, first>>

Next ==
    \/ MainNoDependencies1
    \/ BuildGraph1
    \/ TopologicalSort1
    \/ ForwardPass1
    \/ BackwardPass1
    \/ Classify1
    \/ UpdateNodes1
    \/ MainNoNodes2
    \/ BuildGraph2
    \/ TopologicalSort2
    \/ ForwardPass2
    \/ BackwardPass2
    \/ Classify2
    \/ Annotate2

\* A second run, in a new process, on the collections the first one saved.
Rerun ==
    /\ phase = "done" /\ run = 1
    /\ run' = 2
    /\ first' = [nodes |-> nodes, dependencies |-> dependencies]
    /\ phase' = "loaded"
    /\ in_ids' = DOMAIN nodes
    /\ graph' = [n \in Ids |-> <<>>]
    /\ reverse_graph' = [n \in Ids |-> <<>>]
    /\ in_degree' = NoFields
    /\ out_degree' = NoFields
    /\ all_nodes' = {}
    /\ topo_order' = <<>>
    /\ cycle_warning' = FALSE
    /\ earliest_start' = NoFields
    /\ earliest_finish' = NoFields
    /\ latest_start' = NoFields
    /\ latest_finish' = NoFields
    /\ project_completion' = 0
    /\ critical_nodes' = {}
    /\ UNCHANGED <<variant, nodes, dependencies>>

NextRerun == Next \/ Rerun

Spec == Init /\ [][Next]_vars
SpecWide == InitWide /\ [][Next]_vars
SpecDuration == (Init \/ InitAttrs) /\ [][Next]_vars
SpecRerun == Init /\ [][NextRerun]_vars

\* ============================================ properties of the run
Done == phase = "done"
\* the graph of the edge collection as given, dangling endpoints included
DepGraph == [n \in Ids |-> Targets(dependencies, n)]
DepPreds == [n \in Ids |-> Sources(dependencies, n)]
RECURSIVE ReachIn(_, _, _)
ReachIn(g, S, k) ==
    IF k = 0 THEN S ELSE ReachIn(g, S \cup UNION {Range(g[n]) : n \in S}, k - 1)
\* n reaches itself along at least one edge
HasCycle(g) == \E n \in Ids : n \in ReachIn(g, Range(g[n]), Cardinality(Ids))
InputClosed == Endpoints(dependencies) \subseteq in_ids
HasOcp(n) == n \in DOMAIN nodes /\ "onCriticalPath" \in DOMAIN nodes[n]
NodeCritical(n) == HasOcp(n) /\ nodes[n].onCriticalPath
AllAnnotated ==
    /\ \A n \in DOMAIN nodes : HasOcp(n)
    /\ \A i \in 1..Len(dependencies) :
         /\ "pathType" \in DOMAIN dependencies[i]
         /\ dependencies[i].pathType \in {"critical", "parallel"}
\* the duration the run's policy gives a node: Uniform in variant 1
Duration(n) == IF variant = 1 THEN 1 ELSE calculate_node_duration(nodes[n])
\* longest total duration of a path ending in n / starting in n (acyclic g)
RECURSIVE LongestTo(_)
LongestTo(n) == Duration(n) + MaxOf({0} \cup {LongestTo(p) : p \in Range(DepPreds[n])})
RECURSIVE LongestFrom(_)
LongestFrom(n) == Duration(n) + MaxOf({0} \cup {LongestFrom(t) : t \in Range(DepGraph[n])})
Completion == MaxOf({0} \cup {LongestTo(n) : n \in DOMAIN nodes})
OnLongestPath(n) == LongestTo(n) + LongestFrom(n) - Duration(n) = Completion

\* C1: on an acyclic graph whose edge endpoints are all nodes, a node has
\* onCriticalPath = true exactly when it lies on a path of maximal total
\* duration from a node without predecessors to one without successors, and
\* every other node has positive slack.  (Stated for a non-empty edge
\* collection; the empty one is C3's case.)
C1_CriticalIffOnLongestPath ==
    (Done /\ dependencies # <<>> /\ InputClosed /\ ~HasCycle(DepGraph)) =>
        \A n \in DOMAIN nodes :
            /\ NodeCritical(n) <=> OnLongestPath(n)
            /\ (~NodeCritical(n) /\ n \in DOMAIN earliest_start /\ n \in DOMAIN latest_start)
                  => latest_start[n] - earliest_start[n] > 0

\* C2: after a run every edge has a pathType, and it is critical exactly when
\* the node of its source and the node of its target both have
\* onCriticalPath = true; otherwise it is parallel.
C2_EdgeCriticalIffBothEndpointsCritical ==
    Done => \A i \in 1..Len(dependencies) :
        LET d == dependencies[i]
        IN  /\ "pathType" \in DOMAIN d
            /\ d.pathType \in {"critical", "parallel"}
            /\ d.pathType = "critical" <=> (NodeCritical(d.source) /\ NodeCritical(d.target))
\* a finished run with a critical edge and with a parallel edge that leaves a critical node
C2_Witness ==
    /\ Done
    /\ \E i \in 1..Len(dependencies) : dependencies[i].pathType = "critical"
    /\ \E i \in 1..Len(dependencies) :
         /\ dependencies[i].pathType = "parallel"
         /\ NodeCritical(dependencies[i].source)

\* C3: with an empty edge collection and a non-empty node collection the run
\* ends with onCriticalPath = false on every node.
C3_EmptyEdgesAllNonCritical ==
    (Done /\ dependencies = <<>> /\ DOMAIN nodes # {}) =>
        \A n \in DOMAIN nodes : HasOcp(n) /\ ~nodes[n].onCriticalPath

\* C4: for every edge endpoint absent from the loaded node collection, after
\* the run a node with that id and status Unknown exists, and the edge is part
\* of the graph the times were computed on.
C4_PlaceholderForDanglingEndpoint ==
    Done => \A i \in 1..Len(dependencies) :
        LET d == dependencies[i]
        IN  /\ \A e \in {d.source, d.target} :
                 e \notin in_ids =>
                     e \in DOMAIN nodes /\ Get(nodes[e], "status", "") = "Unknown"
            /\ Count(graph[d.source], d.target) >= 1

\* C5: when the edge collection contains a cycle the run ends without error,
\* the cycle warning is raised, and every node has an onCriticalPath value and
\* every edge a pathType.  (Stated for cycles among loaded nodes, so that no
\* edge of the cycle is a dangling reference.)
C5_CycleSignalledAndAnnotated ==
    (Done /\ InputClosed /\ HasCycle(DepGraph)) => (cycle_warning /\ AllAnnotated)

\* the nodes of the graph the run computes times for
GraphNodes == IF variant = 1 THEN all_nodes ELSE DOMAIN nodes
AfterForward == phase \in {"forward", "backward", "classified", "done"}
AfterBackward == phase \in {"backward", "classified", "done"}
\* variant 1 keeps start times only: a task finishes one unit after its start
EarliestFinish(n) == IF variant = 1 THEN earliest_start[n] + 1 ELSE earliest_finish[n]
LatestFinish(n) == IF variant = 1 THEN latest_start[n] + 1 ELSE latest_finish[n]
Slack(n) == Get(latest_start, n, 0) - Get(earliest_start, n, 0)

\* C6: on an acyclic graph no node has negative slack: the backward pass never
\* gives a node a latest start earlier than its earliest start.
C6_SlackNonNegative ==
    (AfterBackward /\ ~HasCycle(graph)) =>
        \A n \in GraphNodes :
            /\ n \in DOMAIN earliest_start /\ n \in DOMAIN latest_start
            /\ Slack(n) >= 0
\* an acyclic run in which a node with a successor has positive slack
C6_Witness ==
    /\ AfterBackward /\ ~HasCycle(graph)
    /\ \E n \in GraphNodes : graph[n] # <<>> /\ Slack(n) > 0

\* C9: in the backward pass on an acyclic graph every node without successors
\* gets latest_finish = the project completion time (the maximum
\* earliest_finish over all nodes), every node with successors gets
\* latest_finish = the minimum latest_start of its successors, and
\* latest_start = latest_finish - duration.
C9_BackwardPassAnchoredAtCompletion ==
    (AfterBackward /\ ~HasCycle(graph)) =>
        \A n \in GraphNodes :
            /\ graph[n] = <<>> =>
                 LatestFinish(n) = MaxOf({EarliestFinish(m) : m \in GraphNodes})
            /\ graph[n] # <<>> =>
                 LatestFinish(n) = MinOf({latest_start[t] : t \in Range(graph[n])})
            /\ latest_start[n] = LatestFinish(n) - Duration(n)

\* C10: in the forward pass on an acyclic graph every predecessor of a node
\* comes before it in the processing order, the node ends with earliest_start
\* = the maximum earliest_finish of its predecessors (0 if none) and
\* earliest_finish = earliest_start + duration, and the project completion
\* time is the maximum earliest_finish.
C10_ForwardPass ==
    (AfterForward /\ ~HasCycle(graph)) =>
        /\ \A i \in 1..Len(topo_order) : \A p \in Range(reverse_graph[topo_order[i]]) :
             \E j \in 1..(i - 1) : topo_order[j] = p
        /\ \A n \in GraphNodes :
             /\ n \in Range(topo_order) /\ n \in DOMAIN earliest_start
             /\ earliest_start[n] =
                  MaxOf({0} \cup {EarliestFinish(p) : p \in Range(reverse_graph[n])})
             /\ EarliestFinish(n) = earliest_start[n] + Duration(n)
        /\ variant = 2 =>
             project_completion = MaxOf({earliest_finish[n] : n \in GraphNodes})
\* an acyclic run past the forward pass with a node whose two predecessors finish at different times
C10_Witness ==
    /\ AfterForward /\ ~HasCycle(graph)
    /\ \E n \in GraphNodes : \E p, q \in Range(reverse_graph[n]) :
         EarliestFinish(p) < EarliestFinish(q) /\ earliest_start[n] = EarliestFinish(q)

\* C7: a second run on the collections a first run produced gives every
\* node the same onCriticalPath and every edge the same pathType, and adds no
\* node.
C7_SecondRunSameAnnotations ==
    (Done /\ run = 2) => (nodes = first.nodes /\ dependencies = first.dependencies)

\* The weight tables of the specification, durations in tenths.
TablePriorityWeight(p) ==
    CASE p = "Highest" -> 5 [] p = "High" -> 4 [] p = "Medium" -> 3
      [] p = "Low" -> 2 [] p = "Lowest" -> 1 [] OTHER -> 1
TableStatusWeight(t) ==
    CASE t = "Done" -> 0 [] t = "In Progress" -> 5 [] t = "To Do" -> 10
      [] t = "On hold" -> 15 [] OTHER -> 10
\* a missing field is a value the tables do not list
TableDuration(node) ==
    Max2(TablePriorityWeight(Get(node, "priority", "Unknown"))
            * TableStatusWeight(Get(node, "status", "Unknown")), 1)
\* a missing priority counts as Low, a missing status as To Do
TableDurationWithDefaults(node) ==
    Max2(TablePriorityWeight(Get(node, "priority", "Low"))
            * TableStatusWeight(Get(node, "status", "To Do")), 1)
\* The times of the run are those of nodes that last d(n): variant 2 keeps
\* start and finish, variant 1 pushes start + 1 along the edges of the nodes
\* it processes.
TimesUseDuration(d(_)) ==
    /\ variant = 2 =>
         \A n \in DOMAIN nodes :
             /\ d(nodes[n]) > 0
             /\ earliest_finish[n] = earliest_start[n] + d(nodes[n])
             /\ latest_start[n] = latest_finish[n] - d(nodes[n])
             /\ earliest_finish[n] >= earliest_start[n]
             /\ latest_finish[n] >= latest_start[n]
    /\ variant = 1 =>
         \A n \in Range(topo_order) :
             earliest_start[n] = MaxOf({0} \cup {earliest_start[p] + 1 : p \in Range(reverse_graph[n])})

\* C8 (as claimed): the Weighted duration of every node is priority weight x
\* status weight from the tables, where whatever the tables do not list weighs
\* 1 and 1.0, floored at 0.1; the Uniform duration is 1; so durations are
\* positive and finish >= start, earliest and latest, for every node.
C8_TableDurations == AfterBackward => TimesUseDuration(TableDuration)

\* C8 (amended): the same, except that a node without a priority field is
\* weighted as Low (2) and a node without a status field as To Do (1.0).
C8_TableDurationsWithDefaults == AfterBackward => TimesUseDuration(TableDurationWithDefaults)
\* a weighted run with a node that has no priority and is On hold: 2 x 1.5
C8_Witness ==
    /\ AfterBackward /\ variant = 2
    /\ \E n \in DOMAIN nodes :
         /\ "priority" \notin DOMAIN nodes[n]
         /\ Get(nodes[n], "status", "") = "On hold"
         /\ earliest_finish[n] - earliest_start[n] = 30

\* C11: the order the topological sort returns holds every node of the graph
\* exactly once, whatever the graph: on an acyclic graph it is a Kahn order
\* (every node after all its predecessors, duplicate edges included), and on a
\* graph with a cycle the nodes Kahn's loop never dequeued follow the ordered
\* ones instead of being left out.
AfterSort == phase = "sorted" \/ AfterForward
C11_OrderHoldsEveryNodeOnce ==
    AfterSort =>
        /\ Range(topo_order) = GraphNodes
        /\ Len(topo_order) = Cardinality(GraphNodes)
        /\ ~HasCycle(graph) =>
             \A i \in 1..Len(topo_order) : \A p \in Range(reverse_graph[topo_order[i]]) :
                 \E j \in 1..(i - 1) : topo_order[j] = p

====
